---- MODULE Spec2Model ----
(***************************************************************************)
(* Credit ledger, billing engine and usage-gated invocation flow of the    *)
(* ML chat billing service (app/services/billing_service.py,               *)
(* app/services/chat_service.py, app/utils/transactions.py).               *)
(*                                                                         *)
(* The database is a committed state (credits, txlog, interactions) plus,  *)
(* per SQLAlchemy session, the writes that the session has not committed   *)
(* yet.  A session reads its own pending writes and otherwise the          *)
(* committed rows; db.commit() publishes the pending writes, db.rollback() *)
(* discards them.  Every process owns one session.                         *)
(***************************************************************************)
EXTENDS Integers, Sequences, FiniteSets, TLC

(* ------------------------------ bounds -------------------------------- *)
MaxOps == 3          \* operations started in one sequential behaviour
MaxOpsConc == 2      \* operations started in one concurrent behaviour
MaxDepth == 3        \* stands for the interpreter's recursion limit
MaxEntries == 2      \* entries in one bulk_add_credits call
MaxSteps == 3        \* operations added to one TransactionManager
MaxRequests == 4     \* requests that reach the rate limiter

Procs == {1, 2}      \* processes, one database session each
Registered == {1, 2} \* ids of the registered accounts
UnknownIds == {9}    \* an id with no account

(* --------------------------- configuration ---------------------------- *)
DefaultInitialCredits == 100
gemma3_1b_cost == 1
gemma3_4b_cost == 3
DefaultModelCost == 1
RepairInitialCredits == 100

SmallModel == "Gemma3 1B"
NoModel == "None"
OllamaModels == <<"Gemma3 1B", "Gemma3 4B", "Llama3.2 1B">>

VARIABLES
  initial_credits,  \* settings.initial_credits
  available,        \* ml_service.get_available_models()
  credits,          \* committed User.credits per account
  txlog,            \* committed credit_transactions rows, oldest first
  interactions,     \* committed model_interactions rows, oldest first
  sess,             \* per process: the uncommitted writes of its session
  pc,               \* per process: position in the running operation
  loc,              \* per process: locals of the running operation
  pre,              \* per process: what the session saw when the operation began
  res,              \* per process: return value of the last finished operation
  nops,             \* operations started so far
  limiter           \* the RateLimitingMiddleware object, the clock and what it let through

vars == <<initial_credits, available, credits, txlog, interactions,
          sess, pc, loc, pre, res, nops, limiter>>
dbvars == <<credits, txlog, interactions>>
\* what the billing, chat and maintenance operations never touch
cfgvars == <<initial_credits, available, limiter>>

(* ------------------------------ helpers ------------------------------- *)
RECURSIVE SumTx(_, _)
SumTx(log, u) ==
  IF log = <<>> THEN 0
  ELSE (IF Head(log).user = u THEN Head(log).amount ELSE 0) + SumTx(Tail(log), u)

CleanSession ==
  [w |-> {}, bal |-> [u \in Registered |-> 0], tx |-> <<>>, ints |-> <<>>]

\* What session p reads: its own pending write, else the committed row.
ViewBal(p, u) == IF u \in sess[p].w THEN sess[p].bal[u] ELSE credits[u]
ViewTx(p) == txlog \o sess[p].tx
ViewInts(p) == interactions \o sess[p].ints

\* Another session holds an uncommitted write on the row of u.
RowLocked(p, u) == \E q \in Procs \ {p} : u \in sess[q].w

\* UserCRUD.update_credits inside session s
update_credits(s, u, b) ==
  [s EXCEPT !.w = @ \cup {u}, !.bal = [@ EXCEPT ![u] = b]]

\* CreditTransactionCRUD.create inside session s
create_transaction(s, u, a, k) ==
  [s EXCEPT !.tx = Append(@, [user |-> u, amount |-> a, kind |-> k])]

\* ModelInteractionCRUD.create inside session s
create_interaction(s, u, m, c) ==
  [s EXCEPT !.ints = Append(@, [user |-> u, model |-> m, charged |-> c])]

\* the commit puts the pending rows in the place of the stored log
Commit_replace(p, s) ==
  /\ credits' = [u \in Registered |-> IF u \in s.w THEN s.bal[u] ELSE credits[u]]
  /\ txlog' = s.tx
  /\ interactions' = interactions \o s.ints
  /\ sess' = [sess EXCEPT ![p] = CleanSession]

\* db.commit(): the pending writes of session s of process p become committed.
Commit(p, s) ==
  /\ credits' = [u \in Registered |-> IF u \in s.w THEN s.bal[u] ELSE credits[u]]
  /\ txlog' = txlog \o s.tx
  /\ interactions' = interactions \o s.ints
  /\ sess' = [sess EXCEPT ![p] = CleanSession]

\* db.rollback(): the pending writes of the session of p are discarded.
Rollback(p) ==
  /\ UNCHANGED dbvars
  /\ sess' = [sess EXCEPT ![p] = CleanSession]

\* No commit and no rollback: the writes stay pending in the session.
Pending(p, s) ==
  /\ UNCHANGED dbvars
  /\ sess' = [sess EXCEPT ![p] = s]

(* --------------------------- model cost table ------------------------- *)
\* an identifier outside the table costs nothing
get_model_cost_no_default(m) ==
  CASE m = "gemma3_1b" -> gemma3_1b_cost
    [] m = "gemma3_4b" -> gemma3_4b_cost
    [] m = "Gemma3 1B" -> gemma3_1b_cost
    [] m = "Gemma3 4B" -> gemma3_4b_cost
    [] OTHER -> 0

\* BillingService.get_model_cost, lines 269-281
get_model_cost(m) ==
  CASE m = "gemma3_1b" -> gemma3_1b_cost
    [] m = "gemma3_4b" -> gemma3_4b_cost
    [] m = "Gemma3 1B" -> gemma3_1b_cost
    [] m = "Gemma3 4B" -> gemma3_4b_cost
    [] OTHER -> DefaultModelCost

\* list.sort(key=cost): stable insertion of one model into a list sorted by cost
RECURSIVE InsertByCost(_, _)
InsertByCost(m, sorted) ==
  IF sorted = <<>> THEN <<m>>
  ELSE IF get_model_cost(Head(sorted)) <= get_model_cost(m)
       THEN <<Head(sorted)>> \o InsertByCost(m, Tail(sorted))
       ELSE <<m>> \o sorted

RECURSIVE SortByCost(_)
SortByCost(ms) ==
  IF ms = <<>> THEN <<>>
  ELSE InsertByCost(ms[Len(ms)], SortByCost(SubSeq(ms, 1, Len(ms) - 1)))

RECURSIVE FirstAffordable(_, _, _)
FirstAffordable(ms, requested, user_credits) ==
  IF ms = <<>> THEN NoModel
  ELSE IF get_model_cost(Head(ms)) <= user_credits /\ Head(ms) # requested
       THEN Head(ms)
       ELSE FirstAffordable(Tail(ms), requested, user_credits)

\* the models are scanned in the order the ML service lists them
_get_fallback_model_unsorted(requested, user_credits) ==
  FirstAffordable(available, requested, user_credits)

_get_fallback_model(requested, user_credits) ==
  FirstAffordable(SortByCost(available), requested, user_credits)

(* ------------------------- process bookkeeping ------------------------ *)
IdleLoc ==
  [op |-> "none", user |-> 0, amount |-> 0, kind |-> "none", model |-> NoModel,
   requested |-> NoModel, msg |-> "none", cost |-> 0, bal |-> 0, ucred |-> 0,
   depth |-> 0, ret |-> "none", remaining |-> 0, gen |-> "none", env |-> "fine",
   entries |-> <<>>, idx |-> 0, successful |-> 0, failed |-> 0, marks |-> <<>>,
   operations |-> <<>>, rollback_operations |-> <<>>, paired |-> <<>>]

NoResult ==
  [op |-> "none", user |-> 0, ok |-> FALSE, msg |-> "none", detail |-> "none",
   val |-> 0, amount |-> 0, model |-> NoModel, requested |-> NoModel,
   cost |-> 0, user_credits |-> 0, depth |-> 0, gen |-> "none", env |-> "fine",
   entries |-> <<>>, successful |-> 0, failed |-> 0, marks |-> <<>>,
   message |-> "none", operations |-> <<>>, paired |-> <<>>,
   executed |-> <<>>, invoked |-> <<>>, db |-> "none"]

NoPre ==
  [bal |-> 0, ntx |-> 0, nint |-> 0, sum |-> 0, bals |-> [u \in Registered |-> 0]]

\* The session's view when an operation on account u begins.
Snapshot(p, u) ==
  [bal |-> IF u \in Registered THEN ViewBal(p, u) ELSE 0,
   ntx |-> Len(ViewTx(p)),
   nint |-> Len(ViewInts(p)),
   sum |-> SumTx(ViewTx(p), u),
   bals |-> [v \in Registered |-> ViewBal(p, v)]]

Begin(p, l) ==
  /\ pc[p] = "idle"
  /\ nops' = nops + 1
  /\ pre' = [pre EXCEPT ![p] = Snapshot(p, l.user)]

\* The operation returns r to its caller.
Return(p, r) ==
  /\ pc' = [pc EXCEPT ![p] = "idle"]
  /\ loc' = [loc EXCEPT ![p] = IdleLoc]
  /\ res' = [res EXCEPT ![p] = r]

Goto(p, label, l) ==
  /\ pc' = [pc EXCEPT ![p] = label]
  /\ loc' = [loc EXCEPT ![p] = l]
  /\ res' = [res EXCEPT ![p] = NoResult]

BillingResult(l, ok, msg, val) ==
  [NoResult EXCEPT !.op = l.op, !.user = l.user, !.ok = ok, !.msg = msg,
                   !.val = val, !.amount = l.amount, !.env = l.env]

SendResult(l, ok, msg, detail) ==
  [NoResult EXCEPT !.op = "send", !.user = l.user, !.ok = ok, !.msg = msg,
                   !.detail = detail, !.model = l.model,
                   !.requested = l.requested, !.cost = l.cost,
                   !.user_credits = l.ucred, !.val = l.remaining,
                   !.depth = l.depth, !.gen = l.gen, !.env = l.env,
                   !.message = l.msg]

(* --------------------- BillingService.charge_credits ------------------ *)
\* the funds check looks at the balance alone
insufficient_credits_balance_only(user_credits, amount) == user_credits <= 0

\* line 42: if user.credits < amount
insufficient_credits(user_credits, amount) == user_credits < amount

\* line 51: new_balance = user.credits - amount
charge_new_balance(user_credits, amount) == user_credits - amount

\* the charge is logged with the sign of an addition
charge_tx_amount_unsigned(amount) == amount

\* line 62: amount=-amount
charge_tx_amount(amount) == -amount

\* send_message goes on to the interaction record without looking at the
\* outcome of the charge
ChargeReturns_unchecked(p, l, ok, msg, val) ==
  IF l.ret = "send"
  THEN Goto(p, "sm_record", [l EXCEPT !.remaining = val])
  ELSE Return(p, BillingResult(l, ok, msg, val))

\* charge_credits hands (ok, msg, val) back: to the caller of the service, or
\* to send_message (lines 137-149), which goes on to record the interaction
\* or reports a billing error.
ChargeReturns(p, l, ok, msg, val) ==
  IF l.ret = "send"
  THEN IF ok
       THEN Goto(p, "sm_record", [l EXCEPT !.remaining = val])
       ELSE Return(p, SendResult(l, FALSE, "Billing error", msg))
  ELSE Return(p, BillingResult(l, ok, msg, val))

\* lines 36-51: enter the atomic scope, read the account, check the funds; a
\* return from inside the scope commits the session
ChargeRead(p, l) ==
  IF l.user \notin Registered
  THEN /\ Commit(p, sess[p])
       /\ ChargeReturns(p, l, FALSE, "User not found", 0)
  ELSE IF insufficient_credits(ViewBal(p, l.user), l.amount)
  THEN /\ Commit(p, sess[p])
       /\ ChargeReturns(p, l, FALSE, "Insufficient credits", ViewBal(p, l.user))
  ELSE /\ UNCHANGED <<dbvars, sess>>
       /\ Goto(p, "ch_write", [l EXCEPT !.bal = ViewBal(p, l.user)])

charge_credits(p, u, a) ==
  LET l == [IdleLoc EXCEPT !.op = "charge", !.user = u, !.amount = a] IN
  /\ Begin(p, l)
  /\ ChargeRead(p, l)
  /\ UNCHANGED cfgvars

\* lines 51-80: write the new balance, append the transaction, commit; an
\* exception rolls the session back
ChargeWrite(p) ==
  /\ pc[p] = "ch_write"
  /\ LET l == loc[p]
         lf == [l EXCEPT !.env = "storage"]
         new_balance == charge_new_balance(l.bal, l.amount)
         s1 == update_credits(sess[p], l.user, new_balance)
         s2 == create_transaction(s1, l.user, charge_tx_amount(l.amount), "charge")
     IN
     \E outcome \in {"ok", "update_false", "create_raises"} :
       CASE outcome = "ok" ->
              /\ ~RowLocked(p, l.user)
              /\ Commit(p, s2)
              /\ ChargeReturns(p, l, TRUE, "Successfully charged", new_balance)
         [] outcome = "update_false" ->
              /\ Commit(p, sess[p])
              /\ ChargeReturns(p, lf, FALSE, "Failed to update user credits", l.bal)
         [] outcome = "create_raises" ->
              /\ Rollback(p)
              /\ ChargeReturns(p, lf, FALSE, "Database error during charge operation", 0)
  /\ UNCHANGED <<cfgvars, pre, nops>>

(* ------------ BillingService.add_credits / refund_credits ------------- *)
\* the balance is overwritten with the amount
add_new_balance_overwrite(user_credits, amount) == amount

\* line 102 (155): new_balance = user.credits + amount
add_new_balance(user_credits, amount) == user_credits + amount

\* only a negative amount is turned away
invalid_amount_negative_only(amount) == amount < 0

\* line 93 (146): if amount <= 0
invalid_amount(amount) == amount <= 0

\* add_credits hands (ok, msg, val) back: to the caller of the service, or to
\* the loop of bulk_add_credits (lines 318-325), which counts the outcome
AddReturns(p, l, ok, msg, val) ==
  IF l.ret = "bulk"
  THEN Goto(p, "bulk_loop",
            [l EXCEPT !.successful = IF ok THEN @ + 1 ELSE @,
                      !.failed = IF ok THEN @ ELSE @ + 1,
                      !.marks = Append(@, ok),
                      !.idx = @ + 1])
  ELSE Return(p, BillingResult(l, ok, msg, val))

\* lines 92-102 (145-155): reject a non-positive amount, read the account
AddRead(p, l) ==
  /\ UNCHANGED <<dbvars, sess>>
  /\ IF invalid_amount(l.amount)
     THEN AddReturns(p, l, FALSE, "Amount must be positive", 0)
     ELSE IF l.user \notin Registered
     THEN AddReturns(p, l, FALSE, "User not found", 0)
     ELSE Goto(p, "add_write", [l EXCEPT !.bal = ViewBal(p, l.user)])

add_credits(p, u, a, k) ==
  LET l == [IdleLoc EXCEPT !.op = k, !.user = u, !.amount = a, !.kind = k] IN
  /\ Begin(p, l)
  /\ AddRead(p, l)
  /\ UNCHANGED cfgvars

\* lines 126-133 (179-186): except ... self.db.rollback(), whatever the
\* session s had written when the exception was raised
AddFailed(p, s) == Rollback(p)

\* lines 102-133 (155-186): write the new balance, append the transaction;
\* nothing is committed here, an exception rolls the session back
AddWrite(p) ==
  /\ pc[p] = "add_write"
  /\ LET l == loc[p]
         lf == [l EXCEPT !.env = "storage"]
         new_balance == add_new_balance(l.bal, l.amount)
         s1 == update_credits(sess[p], l.user, new_balance)
         s2 == create_transaction(s1, l.user, l.amount, l.kind)
     IN
     \E outcome \in {"ok", "update_false", "create_raises"} :
       CASE outcome = "ok" ->
              /\ ~RowLocked(p, l.user)
              /\ Pending(p, s2)
              /\ AddReturns(p, l, TRUE, "Successfully added", new_balance)
         [] outcome = "update_false" ->
              /\ UNCHANGED <<dbvars, sess>>
              /\ AddReturns(p, lf, FALSE, "Failed to update user credits", l.bal)
         [] outcome = "create_raises" ->
              /\ AddFailed(p, s1)
              /\ AddReturns(p, lf, FALSE, "Database error during add operation", 0)
  /\ UNCHANGED <<cfgvars, pre, nops>>

(* ------------------- BillingService.bulk_add_credits ------------------ *)
\* line 333: return successful, failed
BulkResult(l) ==
  [NoResult EXCEPT !.op = "bulk", !.ok = TRUE, !.entries = l.entries,
                   !.successful = l.successful, !.failed = l.failed,
                   !.marks = l.marks, !.env = l.env]

\* lines 313-314: the counters start at zero
bulk_add_credits(p, user_credits) ==
  LET l == [IdleLoc EXCEPT !.op = "bulk", !.kind = "add", !.ret = "bulk",
                           !.entries = user_credits, !.idx = 1] IN
  /\ Begin(p, l)
  /\ Goto(p, "bulk_loop", l)
  /\ UNCHANGED <<dbvars, sess, cfgvars>>

\* lines 316-333: the next entry goes to add_credits; after the last one the
\* counts are returned
BulkLoop(p) ==
  /\ pc[p] = "bulk_loop"
  /\ LET l == loc[p] IN
     IF l.idx > Len(l.entries)
     THEN /\ UNCHANGED <<dbvars, sess>>
          /\ Return(p, BulkResult(l))
     ELSE AddRead(p, [l EXCEPT !.user = l.entries[l.idx][1],
                               !.amount = l.entries[l.idx][2]])
  /\ UNCHANGED <<cfgvars, pre, nops>>

(* ----------------------- ChatService.send_message --------------------- *)
\* lines 67-88: "ok" the model is available, "small" it is replaced by the
\* small model, "none" no model is available, "ml_down" the service is not up
AvailCases == {"ok", "small", "none", "ml_down"}

\* the advisory check lets every request through
check_sufficient_credits_always(balance, required_amount) == TRUE

\* BillingService.check_sufficient_credits, line 260
check_sufficient_credits(balance, required_amount) == balance >= required_amount

\* the charge is priced by the model that was asked for
send_charge_amount_requested(l) == get_model_cost(l.requested)

\* line 139: amount=model_cost
send_charge_amount(l) == l.cost

\* the record is tagged with the model that was asked for
interaction_model_name_requested(l) == l.requested

\* line 155: model_name=model_name
interaction_model_name(l) == l.model

\* line 158: credits_charged=model_cost
interaction_credits_charged(l) == l.cost

\* the outcome of the model call is not looked at
generation_failed_ignored(success) == FALSE

\* line 126: if not success
generation_failed(success) == ~success

\* line 143: if not charge_success is decided in ChargeReturns; line 109:
\* the model the flow re-enters with
retry_model(requested_model, fallback_model) == fallback_model

\* lines 42-111: validate, settle the model, price it, check the funds and,
\* when they do not suffice, look for a fallback model and re-enter
SendCheck(p, l, av) ==
  LET m == IF av = "small" THEN SmallModel ELSE l.model
      model_cost == get_model_cost(m)
      lm == [l EXCEPT !.model = m, !.cost = model_cost,
                      !.env = IF av = "small" /\ m # l.model THEN "subst" ELSE @]
      lu == [l EXCEPT !.env = "unavailable"]
      fallback_model == _get_fallback_model(m, l.ucred)
  IN
  IF l.depth > MaxDepth
  THEN Return(p, SendResult([l EXCEPT !.env = "recursion"], FALSE, "Unexpected error", "none"))
  ELSE IF l.msg = "empty"
  THEN Return(p, SendResult(l, FALSE, "Message cannot be empty", "none"))
  ELSE IF l.msg = "toolong"
  THEN Return(p, SendResult(l, FALSE, "Message too long", "none"))
  ELSE IF av = "ml_down"
  THEN Return(p, SendResult(lu, FALSE, "ML service is not available", "none"))
  ELSE IF av = "none"
  THEN Return(p, SendResult(lu, FALSE, "Model not available", "none"))
  ELSE IF check_sufficient_credits(ViewBal(p, l.user), model_cost)
  THEN Goto(p, "sm_generate", lm)
  ELSE IF fallback_model # NoModel /\ fallback_model # m
  THEN Goto(p, "sm_check", [lm EXCEPT !.model = retry_model(m, fallback_model),
                                      !.depth = @ + 1])
  ELSE Return(p, SendResult(lm, FALSE, "Insufficient credits", "none"))

\* A message stands for its class: "ok", "empty" (nothing but whitespace),
\* "toolong" (more than 2000 characters), "harmful" (holds '<script',
\* 'javascript:' or 'data:text/html').
\* ChatService.validate_message, lines 381-397
validate_message(msg) == msg \notin {"empty", "toolong", "harmful"}

send_message(p, u, m, msg) ==
  LET l == [IdleLoc EXCEPT !.op = "send", !.user = u, !.model = m,
                           !.requested = m, !.msg = msg,
                           !.ucred = ViewBal(p, u), !.ret = "send"] IN
  /\ u \in Registered
  /\ Begin(p, l)
  /\ \E av \in AvailCases : SendCheck(p, l, av)
  /\ UNCHANGED <<dbvars, sess, cfgvars>>

\* app/api/chat.py send_message: validate_message first (lines 79-84), then
\* ChatService.send_message
api_send_message(p, u, m, msg) ==
  IF validate_message(msg)
  THEN send_message(p, u, m, msg)
  ELSE LET l == [IdleLoc EXCEPT !.op = "send", !.user = u, !.model = m,
                                !.requested = m, !.msg = msg, !.env = "http400"] IN
       /\ u \in Registered
       /\ Begin(p, l)
       /\ Return(p, SendResult(l, FALSE, "Message is not valid", "none"))
       /\ UNCHANGED <<dbvars, sess, cfgvars>>

\* the recursive call of line 109, running lines 42-111 again
SendRecheck(p) ==
  /\ pc[p] = "sm_check"
  /\ \E av \in AvailCases : SendCheck(p, loc[p], av)
  /\ UNCHANGED <<dbvars, sess, cfgvars, pre, nops>>

\* What the model call can do: "ok" it answers in time, "late" it answers
\* after the 30 s the chat client waits for the request, "failed" it raises.
GenOutcomes == {"ok", "late", "failed"}

\* MLService.generate_response / _generate_ollama_response: the call blocks
\* until the model answers and then returns success, however long it took
generate_response(outcome) == outcome # "failed"

\* lines 119-141: the model call; on success charge_credits is entered
SendGenerate(p) ==
  /\ pc[p] = "sm_generate"
  /\ LET l == loc[p] IN
     \E outcome \in GenOutcomes :
       LET success == generate_response(outcome) IN
       IF generation_failed(success)
       THEN /\ UNCHANGED <<dbvars, sess>>
            /\ Return(p, SendResult([l EXCEPT !.gen = "failed", !.env = "genfail"],
                                    FALSE, "Generation failed", "none"))
       ELSE ChargeRead(p, [l EXCEPT !.amount = send_charge_amount(l),
                                    !.gen = IF success THEN outcome ELSE "failed"])
  /\ UNCHANGED <<cfgvars, pre, nops>>

\* lines 151-195: write the interaction record and leave the outer scope
SendRecord(p) ==
  /\ pc[p] = "sm_record"
  /\ LET l == loc[p]
         s1 == create_interaction(sess[p], l.user, interaction_model_name(l),
                                  interaction_credits_charged(l))
     IN
     \E outcome \in {"ok", "create_raises"} :
       CASE outcome = "ok" ->
              /\ Commit(p, s1)
              /\ Return(p, SendResult(l, TRUE, "ok", "none"))
         [] outcome = "create_raises" ->
              /\ Rollback(p)
              /\ Return(p, SendResult([l EXCEPT !.env = "storage"], FALSE,
                                      "Transaction failed", "none"))
  /\ UNCHANGED <<cfgvars, pre, nops>>

(* -------------- POST /auth/credits/add, repair, session end ----------- *)
\* app/api/auth.py add_credits: current_user.credits + amount is written
\* through UserService.update_user_credits; the schema admits amount > 0 only
auth_add_credits(p, u, a) ==
  LET l == [IdleLoc EXCEPT !.op = "auth_add", !.user = u, !.amount = a]
      new_credits == ViewBal(p, u) + a
  IN
  /\ u \in Registered
  /\ a > 0
  /\ Begin(p, l)
  /\ \E success \in BOOLEAN :
       IF success
       THEN /\ ~RowLocked(p, u)
            /\ Pending(p, update_credits(sess[p], u, new_credits))
            /\ Return(p, BillingResult(l, TRUE, "Added", new_credits))
       ELSE /\ UNCHANGED <<dbvars, sess>>
            /\ Return(p, BillingResult(l, FALSE, "Failed to add credits", 0))
  /\ UNCHANGED cfgvars

\* app/utils/transactions.py repair_credit_balance
repair_credit_balance(p, u) ==
  LET l == [IdleLoc EXCEPT !.op = "repair", !.user = u]
      correct_balance == RepairInitialCredits + SumTx(ViewTx(p), u)
  IN
  /\ Begin(p, l)
  /\ IF u \notin Registered
     THEN /\ UNCHANGED <<dbvars, sess>>
          /\ Return(p, BillingResult(l, FALSE, "no user", 0))
     ELSE \E success \in BOOLEAN :
            IF success
            THEN /\ ~RowLocked(p, u)
                 /\ Pending(p, update_credits(sess[p], u, correct_balance))
                 /\ Return(p, BillingResult(l, TRUE, "repaired", correct_balance))
            ELSE /\ UNCHANGED <<dbvars, sess>>
                 /\ Return(p, BillingResult(l, FALSE, "update failed", 0))
  /\ UNCHANGED cfgvars

\* ChatService._get_fallback_model called on its own
GetFallback(p, requested, user_credits) ==
  /\ pc[p] = "idle"
  /\ res' = [res EXCEPT ![p] =
               [NoResult EXCEPT !.op = "fallback", !.requested = requested,
                                !.user_credits = user_credits,
                                !.model = _get_fallback_model(requested, user_credits)]]
  /\ UNCHANGED <<dbvars, sess, cfgvars, pc, loc, pre, nops>>

\* BillingService.get_user_balance, lines 188-199: <<balance>> for an
\* account, <<>> (None) when there is no such user
get_user_balance(p, u) == IF u \in Registered THEN <<ViewBal(p, u)>> ELSE <<>>

\* a balance of zero is taken for a missing account
balance_is_none_falsy(balance) == balance = <<>> \/ balance = <<0>>

\* line 257: if balance is None
balance_is_none(balance) == balance = <<>>

\* BillingService.check_sufficient_credits called on its own, lines 250-267
CheckSufficient(p, u, required_amount) ==
  LET l == [IdleLoc EXCEPT !.op = "check", !.user = u, !.amount = required_amount]
      balance == get_user_balance(p, u)
  IN
  /\ Begin(p, l)
  /\ UNCHANGED <<dbvars, sess, cfgvars>>
  /\ IF balance_is_none(balance)
     THEN Return(p, BillingResult(l, FALSE, "User not found", 0))
     ELSE IF check_sufficient_credits(balance[1], required_amount)
     THEN Return(p, BillingResult(l, TRUE, "Sufficient credits", balance[1]))
     ELSE Return(p, BillingResult(l, FALSE, "Insufficient credits", balance[1]))

\* BillingService.get_model_cost called on its own
GetModelCost(p, model_name) ==
  /\ pc[p] = "idle"
  /\ res' = [res EXCEPT ![p] =
               [NoResult EXCEPT !.op = "cost", !.model = model_name,
                                !.val = get_model_cost(model_name)]]
  /\ UNCHANGED <<dbvars, sess, cfgvars, pc, loc, pre, nops>>

(* ------------------- utils/transactions.py TransactionManager -------- *)
\* An operation is its position in self.operations and what it does when
\* called: returns a truthy value, returns a falsy value or raises.  The
\* rollback callback given with operation i is written i.  paired[i] keeps
\* whether operation i came with a callback.
OperationOutcomes == {"truthy", "falsy", "raises"}

\* TransactionManager(db), lines 56-59
TransactionManager(p) ==
  LET l == [IdleLoc EXCEPT !.op = "tm", !.user = 1] IN
  /\ Begin(p, l)
  /\ Goto(p, "tm_build", l)
  /\ UNCHANGED <<dbvars, sess, cfgvars>>

\* lines 61-70: the operation is appended; the callback only when given
add_operation(p, operation, rollback_given) ==
  /\ pc[p] = "tm_build"
  /\ Len(loc[p].operations) < MaxSteps
  /\ LET i == Len(loc[p].operations) + 1 IN
     loc' = [loc EXCEPT ![p].operations = Append(@, operation),
                        ![p].paired = Append(@, rollback_given),
                        ![p].rollback_operations =
                          IF rollback_given THEN Append(@, i) ELSE @]
  /\ UNCHANGED <<dbvars, sess, cfgvars, pc, pre, res, nops>>

\* lines 80-85: the operations are called in order; one that returns is
\* noted in executed_operations, a falsy result or an exception ends the loop
RECURSIVE RunOperations(_, _)
RunOperations(operations, i) ==
  IF i > Len(operations)
  THEN [executed |-> [k \in 1..Len(operations) |-> k], ok |-> TRUE]
  ELSE CASE operations[i] = "raises" ->
              [executed |-> [k \in 1..(i - 1) |-> k], ok |-> FALSE]
         [] operations[i] = "falsy" ->
              [executed |-> [k \in 1..i |-> k], ok |-> FALSE]
         [] OTHER -> RunOperations(operations, i + 1)

\* lines 95-103: for i in reversed(executed_operations): if i <
\* len(self.rollback_operations): self.rollback_operations[i]()
RECURSIVE RollbacksRun(_, _, _)
RollbacksRun(executed, rollback_operations, k) ==
  IF k = 0 THEN <<>>
  ELSE (IF executed[k] <= Len(rollback_operations)
        THEN <<rollback_operations[executed[k]]>> ELSE <<>>)
       \o RollbacksRun(executed, rollback_operations, k - 1)

\* lines 72-105
execute(p) ==
  /\ pc[p] = "tm_build"
  /\ LET l == loc[p]
         run == RunOperations(l.operations, 1)
         r == [NoResult EXCEPT !.op = "tm", !.user = l.user, !.ok = run.ok,
                               !.operations = l.operations, !.paired = l.paired,
                               !.executed = run.executed]
     IN
     IF run.ok
     THEN /\ Commit(p, sess[p])
          /\ Return(p, [r EXCEPT !.db = "commit"])
     ELSE /\ Rollback(p)
          /\ Return(p, [r EXCEPT !.db = "rollback",
                                 !.invoked = RollbacksRun(run.executed,
                                                          l.rollback_operations,
                                                          Len(run.executed))])
  /\ UNCHANGED <<cfgvars, pre, nops>>

\* the check starts from the default of the setting
consistency_initial_hardcoded == DefaultInitialCredits

\* line 128: expected_balance = settings.initial_credits
consistency_initial == initial_credits

\* lines 128-134: the initial credits plus the amount of every transaction
expected_balance(log, u) == consistency_initial + SumTx(log, u)

\* app/utils/transactions.py ensure_credit_consistency
ensure_credit_consistency(p, u) ==
  LET l == [IdleLoc EXCEPT !.op = "consistency", !.user = u] IN
  /\ Begin(p, l)
  /\ UNCHANGED <<dbvars, sess, cfgvars>>
  /\ IF u \notin Registered
     THEN Return(p, BillingResult(l, FALSE, "no user", 0))
     ELSE Return(p, BillingResult(l, ViewBal(p, u) = expected_balance(ViewTx(p), u),
                                  "checked", ViewBal(p, u)))

\* session.close() at the end of a request or test: pending writes are dropped
CloseSession(p) ==
  /\ pc[p] = "idle"
  /\ sess[p] # CleanSession \/ res[p] # NoResult
  /\ Rollback(p)
  /\ res' = [res EXCEPT ![p] = NoResult]
  /\ UNCHANGED <<cfgvars, pc, loc, pre, nops>>

(* ----------------------------- specification -------------------------- *)
(* ------------------- api/middleware.py RateLimitingMiddleware ---------- *)
ConfiguredCallsPerMinute == 100
WindowSeconds == 60

\* lines 105-108: self.client_requests = {}; time is what time.time() last
\* returned; passed lists the requests handed to call_next and status is the
\* answer to the last request
NewLimiter(calls_per_minute) ==
  [calls_per_minute |-> calls_per_minute, client_requests |-> <<>>,
   time |-> 0, passed |-> <<>>, status |-> 0, client_ip |-> "none", handled |-> 0]

\* lines 123-126 and 116-117: the stored times later than the cutoff
recent(requests, cutoff_time) ==
  SelectSeq(requests, LAMBDA req_time : req_time > cutoff_time)

rate_limit_exceeded_above(recent_requests, calls_per_minute) ==
  Len(recent_requests) > calls_per_minute

\* line 128
rate_limit_exceeded(recent_requests, calls_per_minute) ==
  Len(recent_requests) >= calls_per_minute

\* lines 109-147; elapsed is the time since the previous request
dispatch(client_ip, elapsed) ==
  /\ limiter.handled < MaxRequests
  /\ LET current_time == limiter.time + elapsed
         cutoff_time == current_time - WindowSeconds
         old == limiter.client_requests
         kept == {ip \in DOMAIN old : recent(old[ip], cutoff_time) # <<>>}
         cleaned == [ip \in kept |-> old[ip]]
         seen == [limiter EXCEPT !.time = current_time, !.client_ip = client_ip,
                                 !.handled = @ + 1]
         pass(requests) ==
           [seen EXCEPT !.client_requests =
                          [ip \in kept \cup {client_ip} |->
                             IF ip = client_ip THEN requests ELSE cleaned[ip]],
                        !.passed = Append(@, [client_ip |-> client_ip,
                                              time |-> current_time]),
                        !.status = 200]
     IN
     IF client_ip \in kept
     THEN LET recent_requests == recent(cleaned[client_ip], cutoff_time) IN
          IF rate_limit_exceeded(recent_requests, limiter.calls_per_minute)
          THEN limiter' = [seen EXCEPT !.client_requests = cleaned, !.status = 429]
          ELSE limiter' = pass(Append(recent_requests, current_time))
     ELSE limiter' = pass(<<current_time>>)
  /\ UNCHANGED <<initial_credits, available, dbvars, sess, pc, loc, pre, res, nops>>

InitWith(ics, avs) ==
  /\ limiter = NewLimiter(ConfiguredCallsPerMinute)
  /\ initial_credits \in ics
  /\ available \in avs
  /\ credits = [u \in Registered |-> initial_credits]
  /\ txlog = <<>>
  /\ interactions = <<>>
  /\ sess = [p \in Procs |-> CleanSession]
  /\ pc = [p \in Procs |-> "idle"]
  /\ loc = [p \in Procs |-> IdleLoc]
  /\ pre = [p \in Procs |-> NoPre]
  /\ res = [p \in Procs |-> NoResult]
  /\ nops = 0

Init == InitWith({1, 3, DefaultInitialCredits}, {OllamaModels})

Amounts == {0, 1, 3, 101}
CallerIds == {1, 9}
RequestModels == {"Gemma3 1B", "Gemma3 4B"}
Messages == {"ok", "empty"}

\* charge_credits, add_credits and refund_credits called on the sessions of
\* P, at most n operations, with user ids from U and amounts from A
BillingOps(P, n, U, A) ==
  \/ \E p \in P, u \in U, a \in A : nops < n /\ charge_credits(p, u, a)
  \/ \E p \in P : ChargeWrite(p)
  \/ \E p \in P, u \in U, a \in A, k \in {"add", "refund"} :
       nops < n /\ add_credits(p, u, a, k)
  \/ \E p \in P : AddWrite(p)
  \/ \E p \in P : CloseSession(p)

ChatOps(P, n, U) ==
  \/ \E p \in P, u \in U, m \in RequestModels, msg \in Messages :
       nops < n /\ send_message(p, u, m, msg)
  \/ \E p \in P : SendRecheck(p)
  \/ \E p \in P : SendGenerate(p)
  \/ \E p \in P : SendRecord(p)

OtherOps(P, n, U, A) ==
  \/ \E p \in P, u \in U, a \in A : nops < n /\ auth_add_credits(p, u, a)
  \/ \E p \in P, u \in U : nops < n /\ repair_credit_balance(p, u)
  \/ \E p \in P, u \in U : nops < n /\ ensure_credit_consistency(p, u)

\* Concurrent requests: every process runs its operations on its own session.
ConcIds == {1}
ConcAmounts == {1, 3}
Next ==
  \/ BillingOps(Procs, MaxOpsConc, ConcIds, ConcAmounts)
  \/ ChatOps(Procs, MaxOpsConc, ConcIds)
  \/ OtherOps(Procs, MaxOpsConc, ConcIds, ConcAmounts)
Spec == Init /\ [][Next]_vars

\* Every exposed operation, run one at a time on one session.
NextSeq ==
  \/ BillingOps({1}, MaxOps, CallerIds, Amounts)
  \/ ChatOps({1}, MaxOps, CallerIds)
  \/ OtherOps({1}, MaxOps, CallerIds, Amounts)
SpecSeq == Init /\ [][NextSeq]_vars

\* Only the billing engine, run one at a time on one session.
NextLedger == BillingOps({1}, MaxOps, CallerIds, Amounts)
SpecLedger == Init /\ [][NextLedger]_vars

\* Two sessions that each call charge_credits, interleaved.
NextCharges ==
  \/ \E p \in Procs, u \in CallerIds, a \in Amounts :
       nops < MaxOpsConc /\ charge_credits(p, u, a)
  \/ \E p \in Procs : ChargeWrite(p)
SpecCharges == Init /\ [][NextCharges]_vars

\* The fallback search alone, for every list of models the ML service can
\* report: the Ollama list or any set of loaded models in any order.
ModelNames == {OllamaModels[i] : i \in 1..Len(OllamaModels)}
AvailableLists ==
  {ms \in UNION {[1..n -> ModelNames] : n \in 0..Len(OllamaModels)} :
     \A i, j \in 1..Len(ms) : ms[i] = ms[j] => i = j}
FallbackRequests == ModelNames \cup {"gemma3_4b"}
FallbackCredits == {-1, 0, 1, 2, 3, 100}
InitFallback == InitWith({DefaultInitialCredits}, AvailableLists)
NextFallback ==
  \E requested \in FallbackRequests, user_credits \in FallbackCredits :
    GetFallback(1, requested, user_credits)
SpecFallback == InitFallback /\ [][NextFallback]_vars

\* bulk_add_credits called on one session, one call after the other.
BulkUsers == {1, 2, 9}
BulkAmounts == {0, 1}
BulkLists ==
  UNION {[1..n -> BulkUsers \X BulkAmounts] : n \in 1..MaxEntries}
NextBulk ==
  \/ \E user_credits \in BulkLists :
       nops < MaxOpsConc /\ bulk_add_credits(1, user_credits)
  \/ BulkLoop(1)
  \/ AddWrite(1)
  \/ CloseSession(1)
SpecBulk == Init /\ [][NextBulk]_vars

\* Messages of every class, sent through the endpoint or handed to
\* ChatService.send_message directly, one request at a time.
MessageClasses == {"ok", "empty", "toolong", "harmful"}
NextValidation ==
  \/ \E m \in RequestModels, msg \in MessageClasses :
       nops < MaxOps /\ send_message(1, 1, m, msg)
  \/ \E m \in RequestModels, msg \in MessageClasses :
       nops < MaxOps /\ api_send_message(1, 1, m, msg)
  \/ SendRecheck(1)
  \/ SendGenerate(1)
  \/ ChargeWrite(1)
  \/ SendRecord(1)
SpecValidation == Init /\ [][NextValidation]_vars

\* Every operation that touches the ledger, bulk_add_credits included, one
\* at a time on one session.
LogBulkLists ==
  {<<<<1, 1>>>>, <<<<1, 1>>, <<9, 1>>>>, <<<<9, 1>>, <<1, 3>>>>}
NextLog ==
  \/ BillingOps({1}, MaxOpsConc, ConcIds, ConcAmounts)
  \/ ChatOps({1}, MaxOpsConc, ConcIds)
  \/ OtherOps({1}, MaxOpsConc, ConcIds, ConcAmounts)
  \/ \E user_credits \in LogBulkLists :
       nops < MaxOpsConc /\ bulk_add_credits(1, user_credits)
  \/ BulkLoop(1)
SpecLog == Init /\ [][NextLog]_vars

\* The billing engine with its funds check, one call at a time.
NextCheck ==
  \/ NextLedger
  \/ \E u \in CallerIds, n \in Amounts : nops < MaxOps /\ CheckSufficient(1, u, n)
SpecCheck == Init /\ [][NextCheck]_vars

\* Cost queries of two callers around the billing operations of the first.
CostQueries ==
  {"gemma3_1b", "Gemma3 1B", "gemma3_4b", "Gemma3 4B", "gemma3_12b",
   "Gemma3 12B", "Llama3.2 1B", "unknown_model"}
CostTableKeys == {"gemma3_1b", "gemma3_4b", "Gemma3 1B", "Gemma3 4B"}
NextCost ==
  \/ BillingOps({1}, MaxOpsConc, ConcIds, ConcAmounts)
  \/ \E p \in Procs, model_name \in CostQueries : GetModelCost(p, model_name)
SpecCost == Init /\ [][NextCost]_vars

\* A TransactionManager built and executed on a session that may hold the
\* uncommitted writes of add_credits.
NextTM ==
  \/ \E a \in ConcAmounts : nops < MaxOpsConc /\ add_credits(1, 1, a, "add")
  \/ AddWrite(1)
  \/ nops < MaxOpsConc /\ TransactionManager(1)
  \/ \E operation \in OperationOutcomes, rollback_given \in BOOLEAN :
       add_operation(1, operation, rollback_given)
  \/ execute(1)
SpecTM == Init /\ [][NextTM]_vars

\* Requests of two clients arrive at the rate limiter at non-decreasing
\* times; the limit is small so that it is reached.
Clients == {"10.0.0.1", "10.0.0.2"}
ElapsedSeconds == {0, 30, 60}
Limits == {1, 2}

InitRate ==
  /\ limiter \in {NewLimiter(n) : n \in Limits}
  /\ initial_credits = DefaultInitialCredits
  /\ available = OllamaModels
  /\ credits = [u \in Registered |-> initial_credits]
  /\ txlog = <<>>
  /\ interactions = <<>>
  /\ sess = [p \in Procs |-> CleanSession]
  /\ pc = [p \in Procs |-> "idle"]
  /\ loc = [p \in Procs |-> IdleLoc]
  /\ pre = [p \in Procs |-> NoPre]
  /\ res = [p \in Procs |-> NoResult]
  /\ nops = 0

NextRate ==
  \E client_ip \in Clients, elapsed \in ElapsedSeconds : dispatch(client_ip, elapsed)
SpecRate == InitRate /\ [][NextRate]_vars

(* ------------------------------- claims ------------------------------- *)
LastTx(p) == ViewTx(p)[Len(ViewTx(p))]
LastInt(p) == ViewInts(p)[Len(ViewInts(p))]

\* C1: after any sequence of charge_credits, add_credits and refund_credits
\* calls run one at a time, successful or rejected, the balance of every
\* account equals the initial balance plus the sum of the amounts of its
\* transactions, in the committed rows and in what the session reads.
C1_LedgerReconstruction ==
  \A u \in Registered :
    /\ credits[u] = initial_credits + SumTx(txlog, u)
    /\ \A p \in Procs : ViewBal(p, u) = initial_credits + SumTx(ViewTx(p), u)

C1_Witness ==
  /\ pc[1] = "idle"
  /\ res[1].op = "charge" /\ res[1].msg = "Insufficient credits"
  /\ \E i, j \in 1..Len(txlog) :
       txlog[i].kind = "charge" /\ txlog[j].kind \in {"add", "refund"}

\* C2: two concurrent charge_credits calls of one user that both succeed
\* leave the balance at the start balance minus both amounts, so the balance
\* still equals the initial balance plus the sum of the user's transactions.
C2_NoLostUpdate ==
  \A u \in Registered :
    ( /\ \A p \in Procs : pc[p] = "idle" /\ res[p].op = "charge"
                          /\ res[p].ok /\ res[p].user = u
                          /\ res[p].amount > 0 )
    => credits[u] = initial_credits + SumTx(txlog, u)

\* C3: when writing the interaction record fails after the charge succeeded,
\* the charge is rolled back as well: balance, transaction log and interaction
\* table are as they were before the request.
C3_ChargeAndRecordBothOrNeither ==
  \A p \in Procs :
    (res[p].op = "send" /\ res[p].msg = "Transaction failed")
    => /\ ViewBal(p, res[p].user) = pre[p].bal
       /\ Len(ViewTx(p)) = pre[p].ntx
       /\ Len(ViewInts(p)) = pre[p].nint

\* C4: after a storage failure in charge_credits between the balance
\* decrement and the transaction append, the balance read equals the balance
\* before the call and the transaction log has no new row.
C4_FailedChargeChangesNothing ==
  \A p \in Procs :
    (res[p].op = "charge" /\ res[p].msg = "Database error during charge operation")
    => /\ ViewBal(p, res[p].user) = pre[p].bal
       /\ Len(ViewTx(p)) = pre[p].ntx

\* C5: charge_credits with an amount above the balance fails with the
\* insufficient-credits message and the unchanged balance as third value,
\* leaves the balance as it was and appends no transaction.
C5_InsufficientChargeRejected ==
  \A p \in Procs :
    ( /\ res[p].op = "charge" /\ res[p].user \in Registered
      /\ res[p].amount > pre[p].bal )
    => /\ ~res[p].ok
       /\ res[p].msg = "Insufficient credits"
       /\ res[p].val = pre[p].bal
       /\ ViewBal(p, res[p].user) = pre[p].bal
       /\ credits[res[p].user] = pre[p].bal
       /\ Len(ViewTx(p)) = pre[p].ntx

C5_Witness ==
  /\ res[1].op = "charge" /\ res[1].user \in Registered
  /\ res[1].amount > pre[1].bal
  /\ pre[1].bal > 0 /\ pre[1].ntx > 0

\* C6: in every reachable state every account balance, committed or read by
\* a session, is at least zero.
C6_BalanceNeverNegative ==
  \A u \in Registered :
    /\ credits[u] >= 0
    /\ \A p \in Procs : ViewBal(p, u) >= 0

\* C7: a send_message request whose generation fails returns a generation
\* failure, adds no transaction and no interaction record and leaves the
\* balance unchanged.
C7_FailedGenerationNotBilled ==
  \A p \in Procs :
    (res[p].op = "send" /\ res[p].gen = "failed")
    => /\ ~res[p].ok
       /\ res[p].msg = "Generation failed"
       /\ Len(ViewTx(p)) = pre[p].ntx
       /\ Len(ViewInts(p)) = pre[p].nint
       /\ ViewBal(p, res[p].user) = pre[p].bal

C7_Witness ==
  /\ res[1].op = "send" /\ res[1].gen = "failed"
  /\ pre[1].ntx > 0 /\ pre[1].bal > 0

\* C8: a send_message request that returns success adds exactly one charge
\* transaction, of minus the cost of the model used, and exactly one
\* interaction record, and reports the balance before the request minus that
\* cost; no request adds more than one transaction.
C8_ChargedExactlyOnce ==
  \A p \in Procs :
    res[p].op = "send"
    => /\ Len(ViewTx(p)) <= pre[p].ntx + 1
       /\ res[p].ok =>
            /\ Len(ViewTx(p)) = pre[p].ntx + 1
            /\ LastTx(p) = [user |-> res[p].user,
                            amount |-> -get_model_cost(res[p].model),
                            kind |-> "charge"]
            /\ Len(ViewInts(p)) = pre[p].nint + 1
            /\ res[p].val = pre[p].bal - get_model_cost(res[p].model)
            /\ ViewBal(p, res[p].user) = res[p].val

C8_Witness ==
  /\ res[1].op = "send" /\ res[1].ok
  /\ res[1].model # res[1].requested
  /\ pre[1].ntx > 0

\* C9: every interaction record has a committed charge transaction of the
\* same user with amount minus its credits_charged, and a step in which
\* charge_credits fails inside send_message returns a billing error and
\* writes no interaction record.
C9_InteractionsBacked ==
  \A p \in Procs : \A i \in 1..Len(ViewInts(p)) :
    \E j \in 1..Len(txlog) :
      /\ txlog[j].user = ViewInts(p)[i].user
      /\ txlog[j].kind = "charge"
      /\ txlog[j].amount = -ViewInts(p)[i].charged

C9_ChargeFailureStep ==
  \A p \in Procs :
    ( /\ pc[p] \in {"sm_generate", "ch_write"} /\ loc[p].ret = "send"
      /\ pc'[p] = "idle" /\ res'[p].gen = "ok" )
    => /\ ~res'[p].ok
       /\ res'[p].msg = "Billing error"
       /\ interactions' = interactions
       /\ sess'[p].ints = <<>>

C9_RecordOnlyAfterCharge ==
  []C9_InteractionsBacked /\ [][C9_ChargeFailureStep]_vars

C9_Witness ==
  \E p \in Procs :
    /\ res[p].op = "send" /\ res[p].msg = "Billing error" /\ res[p].gen = "ok"
    /\ Len(interactions) > 0

\* C10: when the requested model costs more than the balance and an available
\* model other than the requested one is affordable, send_message retries
\* with a fallback model and, the model call and the storage not failing,
\* succeeds; the charge is the cost of the fallback model and the interaction
\* record carries the name of the fallback model.
AffordableAlternative(requested, balance) ==
  \E i \in 1..Len(available) :
    available[i] # requested /\ get_model_cost(available[i]) <= balance

FallbackCandidates(requested, user_credits) ==
  {i \in 1..Len(available) :
     available[i] # requested /\ get_model_cost(available[i]) <= user_credits}

C11_FallbackIsCheapestAffordable ==
  \A p \in Procs :
    res[p].op = "fallback"
    => LET cands == FallbackCandidates(res[p].requested, res[p].user_credits)
           m == res[p].model
       IN /\ (m = NoModel) <=> (cands = {})
          /\ m # NoModel =>
               /\ \E i \in cands : available[i] = m
               /\ \A i \in cands : get_model_cost(m) <= get_model_cost(available[i])

C11_Witness ==
  /\ res[1].op = "fallback" /\ res[1].model = "Llama3.2 1B"
  /\ res[1].requested = "Gemma3 1B"
  /\ available = <<"Gemma3 4B", "Llama3.2 1B", "Gemma3 1B">>

\* C12: a send_message request re-enters itself with a fallback model at
\* most once, also when the stored balance differs from the credits value
\* held in the user object the request was given.
C12_AtMostOneFallback ==
  \A p \in Procs : loc[p].depth <= 1 /\ res[p].depth <= 1

\* C13: when the funds check of send_message fails and no available model
\* other than the requested one is affordable, the request fails with the
\* insufficient-credits message, reports the required cost and the current
\* balance, invokes no model and leaves the balance, the transaction log and
\* the interaction table as they were.
C13_InsufficientWithoutFallback ==
  \A p \in Procs :
    ( /\ res[p].op = "send" /\ res[p].msg # "Message cannot be empty"
      /\ res[p].env \in {"fine", "subst"}
      /\ get_model_cost(res[p].model) > pre[p].bal
      /\ ~AffordableAlternative(res[p].model, pre[p].bal) )
    => /\ ~res[p].ok
       /\ res[p].msg = "Insufficient credits"
       /\ res[p].cost = get_model_cost(res[p].model)
       /\ res[p].user_credits = pre[p].bal
       /\ res[p].gen = "none"
       /\ ViewBal(p, res[p].user) = pre[p].bal
       /\ Len(ViewTx(p)) = pre[p].ntx
       /\ Len(ViewInts(p)) = pre[p].nint

C13_Witness ==
  /\ res[1].op = "send" /\ res[1].msg = "Insufficient credits"
  /\ res[1].env = "fine" /\ res[1].depth = 0
  /\ pre[1].bal = 0 /\ pre[1].ntx > 0

\* C14: when two send_message requests of one user both pass the funds
\* check on the same balance, both get their answer from the model, and
\* their combined cost exceeds that balance, exactly one of them is charged:
\* the other returns a billing error for insufficient credits, and the log
\* and the interaction table grow by one row only.
C14_SecondChargeFails ==
  \A p, q \in Procs :
    ( /\ p # q
      /\ pc[p] = "idle" /\ pc[q] = "idle"
      /\ res[p].op = "send" /\ res[q].op = "send"
      /\ res[p].user = res[q].user
      /\ res[p].gen = "ok" /\ res[q].gen = "ok"
      /\ res[p].env = "fine" /\ res[q].env = "fine"
      /\ pre[p].bal = pre[q].bal /\ pre[p].ntx = pre[q].ntx
      /\ res[p].cost + res[q].cost > pre[p].bal )
    => /\ res[p].ok # res[q].ok
       /\ res[p].ok =>
            /\ res[q].msg = "Billing error"
            /\ res[q].detail = "Insufficient credits"
            /\ credits[res[p].user] = pre[p].bal - res[p].cost
       /\ Len(txlog) = pre[p].ntx + 1
       /\ Len(interactions) = pre[p].nint + 1

\* C15: a successful charge_credits(a) lowers the balance by a, appends one
\* 'charge' transaction of -a and returns the new balance; a successful
\* add_credits(a) or refund_credits(a) raises the balance by a, appends one
\* transaction of +a of its own kind and returns the new balance.
BillingDelta(op, amount) == IF op = "charge" THEN -amount ELSE amount

C15_BillingOperationEffect ==
  \A p \in Procs :
    (res[p].op \in {"charge", "add", "refund"} /\ res[p].ok)
    => /\ ViewBal(p, res[p].user) = pre[p].bal + BillingDelta(res[p].op, res[p].amount)
       /\ res[p].val = ViewBal(p, res[p].user)
       /\ Len(ViewTx(p)) = pre[p].ntx + 1
       /\ LastTx(p) = [user |-> res[p].user,
                       amount |-> BillingDelta(res[p].op, res[p].amount),
                       kind |-> res[p].op]

C15_Witness ==
  /\ res[1].op = "refund" /\ res[1].ok /\ res[1].amount = 3
  /\ \E i, j \in 1..Len(ViewTx(1)) :
       ViewTx(1)[i].kind = "charge" /\ ViewTx(1)[j].kind = "add"

\* C16: every 'charge' transaction in the log has a negative amount and
\* every 'add' or 'refund' transaction a positive one, whatever amounts the
\* callers pass.
C16_TransactionSigns ==
  \A p \in Procs : \A i \in 1..Len(ViewTx(p)) :
    IF ViewTx(p)[i].kind = "charge"
    THEN ViewTx(p)[i].amount < 0
    ELSE ViewTx(p)[i].amount > 0

\* C17: a billing call rejected for its input - add_credits or
\* refund_credits with amount <= 0, or charge_credits, add_credits or
\* refund_credits for an id with no account - returns failure, and the
\* balance of every account and the transaction log read after the call are
\* those read before it.
RejectedForInput(r) ==
  /\ r.op \in {"charge", "add", "refund"}
  /\ \/ r.user \notin Registered
     \/ r.op \in {"add", "refund"} /\ r.amount <= 0

C17_RejectedFails ==
  \A p \in Procs :
    RejectedForInput(res[p])
    => ~res[p].ok /\ Len(ViewTx(p)) = pre[p].ntx

C17_RejectedStep ==
  \A p \in Procs :
    (pc[p] = "idle" /\ nops' = nops + 1 /\ RejectedForInput(res'[p]))
    => /\ ~res'[p].ok
       /\ \A u \in Registered :
            (IF u \in sess'[p].w THEN sess'[p].bal[u] ELSE credits'[u]) = ViewBal(p, u)
       /\ txlog' \o sess'[p].tx = ViewTx(p)

C17_RejectedCallIsNoOp == []C17_RejectedFails /\ [][C17_RejectedStep]_vars

C17_Witness ==
  /\ res[1].op = "add" /\ res[1].amount = 0 /\ res[1].user \in Registered
  /\ Len(txlog) > 0 /\ Len(sess[1].tx) > 0

\* C18: bulk_add_credits returns counts that add up to the number of
\* entries; an entry succeeds only with an existing user and a positive
\* amount, and does so whenever the storage does not fail; after the call
\* every balance is the balance before it plus the amounts of the entries
\* that succeeded for that user, so a failed entry changes no balance and
\* undoes no other entry.
RECURSIVE AddedBy(_, _, _)
AddedBy(entries, marks, u) ==
  IF entries = <<>> THEN 0
  ELSE (IF marks[1] /\ entries[1][1] = u THEN entries[1][2] ELSE 0)
       + AddedBy(Tail(entries), Tail(marks), u)

ValidEntry(e) == e[1] \in Registered /\ e[2] > 0

C18_BulkEntriesIndependent ==
  \A p \in Procs :
    res[p].op = "bulk"
    => /\ res[p].successful + res[p].failed = Len(res[p].entries)
       /\ Len(res[p].marks) = Len(res[p].entries)
       /\ \A i \in 1..Len(res[p].entries) :
            /\ res[p].marks[i] => ValidEntry(res[p].entries[i])
            /\ (res[p].env = "fine" /\ ValidEntry(res[p].entries[i])) => res[p].marks[i]
       /\ \A u \in Registered :
            ViewBal(p, u) = pre[p].bals[u] + AddedBy(res[p].entries, res[p].marks, u)

\* C19: ensure_credit_consistency(user) returns True exactly when the user
\* has an account whose balance equals the configured initial balance plus
\* the sum of the amounts of the user's transactions, taken in any order, and
\* the call changes neither the stored rows nor the session.
RECURSIVE LedgerSum(_, _)
LedgerSum(log, u) ==
  IF log = <<>> THEN 0
  ELSE LedgerSum(SubSeq(log, 1, Len(log) - 1), u)
       + (IF log[Len(log)].user = u THEN log[Len(log)].amount ELSE 0)

C19_Verdict ==
  \A p \in Procs :
    res[p].op = "consistency"
    => ( res[p].ok <=>
           /\ res[p].user \in Registered
           /\ ViewBal(p, res[p].user)
                = initial_credits + LedgerSum(ViewTx(p), res[p].user) )

C19_ReadOnlyStep ==
  \A p \in Procs :
    (nops' = nops + 1 /\ res'[p].op = "consistency")
    => UNCHANGED <<credits, txlog, interactions, sess>>

C20_RepairMakesConsistent ==
  \A p \in Procs :
    (res[p].op = "repair" /\ res[p].ok)
    => ViewBal(p, res[p].user) = expected_balance(ViewTx(p), res[p].user)

\* C21: only charge_credits, add_credits and refund_credits change a
\* balance, each together with a transaction of the same signed amount: over
\* any other exposed operation - POST /auth/credits/add, the repair, the
\* consistency check - the balance moves by exactly what the operation
\* appended to the user's transactions.
C21_OnlyBillingMovesBalance ==
  \A p \in Procs :
    (res[p].op \in {"auth_add", "repair", "consistency"} /\ res[p].user \in Registered)
    => ViewBal(p, res[p].user) - pre[p].bal
         = LedgerSum(ViewTx(p), res[p].user) - pre[p].sum

\* C22: add_credits and refund_credits write the balance and the transaction
\* atomically: once a call has returned success, every later read, by any
\* session, finds the new balance and the new transaction together.
C22_AddVisibleTogether ==
  \A p \in Procs :
    (pc[p] = "idle" /\ res[p].op \in {"add", "refund"} /\ res[p].ok)
    => \A q \in Procs :
         /\ ViewBal(q, res[p].user) = res[p].val
         /\ \E i \in 1..Len(ViewTx(q)) :
              ViewTx(q)[i] = [user |-> res[p].user, amount |-> res[p].amount,
                              kind |-> res[p].op]

\* C23: a message that fails validation - empty, too long or holding a
\* disallowed pattern - gets a validation error from the send-message flow:
\* no pricing and no funds check, no model call, no charge, no transaction
\* and no interaction record.
C23_InvalidMessageNeverBilled ==
  \A p \in Procs :
    (res[p].op = "send" /\ ~validate_message(res[p].message))
    => /\ ~res[p].ok
       /\ res[p].msg \in {"Message cannot be empty", "Message too long",
                          "Message is not valid"}
       /\ res[p].cost = 0
       /\ res[p].gen = "none"
       /\ ViewBal(p, res[p].user) = pre[p].bal
       /\ Len(ViewTx(p)) = pre[p].ntx
       /\ Len(ViewInts(p)) = pre[p].nint

\* C24: a generation that answers only after the timeout counts as failed:
\* the request returns a generation failure and writes no charge
\* transaction and no interaction record.
C24_LateResultNotBilled ==
  \A p \in Procs :
    (res[p].op = "send" /\ res[p].gen = "late")
    => /\ ~res[p].ok
       /\ res[p].msg = "Generation failed"
       /\ Len(ViewTx(p)) = pre[p].ntx
       /\ Len(ViewInts(p)) = pre[p].nint

\* C25: the transaction log is append-only: over every step of every
\* operation the committed log keeps all its rows, unchanged and in place,
\* and at most gains rows at its end.
C25_LogStep ==
  /\ Len(txlog') >= Len(txlog)
  /\ SubSeq(txlog', 1, Len(txlog)) = txlog

C26_Verdict ==
  \A p \in Procs :
    res[p].op = "check"
    => ( res[p].ok <=>
           /\ res[p].user \in Registered
           /\ ViewBal(p, res[p].user) >= res[p].amount )

C26_ReadOnlyStep ==
  \A p \in Procs :
    (nops' = nops + 1 /\ res'[p].op = "check")
    => /\ credits' = credits /\ txlog' = txlog /\ interactions' = interactions
       /\ sess' = sess

C26_CheckIsReadOnly == []C26_Verdict /\ [][C26_ReadOnlyStep]_vars

C26_Witness ==
  /\ res[1].op = "check" /\ res[1].ok /\ res[1].amount = 0
  /\ ViewBal(1, 1) = 0 /\ Len(ViewTx(1)) > 0

\* C27: get_model_cost is pure and stable: two calls with the same
\* identifier return the same value whatever billing operations ran between
\* them, an identifier outside the cost table yields the default cost 1, and
\* the call changes no stored row and nothing in the session.
C27_SameAnswer ==
  \A p, q \in Procs :
    (res[p].op = "cost" /\ res[q].op = "cost" /\ res[p].model = res[q].model)
    => res[p].val = res[q].val

C27_DefaultCost ==
  \A p \in Procs :
    (res[p].op = "cost" /\ res[p].model \notin CostTableKeys) => res[p].val = 1

C27_ReadOnlyStep ==
  \A p \in Procs :
    (res'[p].op = "cost" /\ res'[p] # res[p])
    => /\ credits' = credits /\ txlog' = txlog /\ interactions' = interactions
       /\ sess' = sess /\ initial_credits' = initial_credits
       /\ available' = available

C28_LargeModelCostsThree ==
  \A p \in Procs :
    res[p].op = "cost"
    => /\ res[p].model \in {"gemma3_1b", "Gemma3 1B"} => res[p].val = 1
       /\ res[p].model \in {"gemma3_12b", "Gemma3 12B"} => res[p].val = 3

\* C29: when TransactionManager.execute fails, the rollback callbacks that
\* run are those given with the operations that returned, latest first and
\* each once, and no callback of an operation that was never called runs,
\* also when some operations came without a callback; the session is
\* committed exactly when every operation returned a truthy value and rolled
\* back otherwise.
RECURSIVE ExpectedRollbacks(_, _, _)
ExpectedRollbacks(executed, paired, k) ==
  IF k = 0 THEN <<>>
  ELSE (IF paired[executed[k]] THEN <<executed[k]>> ELSE <<>>)
       \o ExpectedRollbacks(executed, paired, k - 1)

\* the operations that were called: those that returned and, after them, the
\* one that raised
Called(r) ==
  IF Len(r.executed) < Len(r.operations) /\ r.operations[Len(r.executed) + 1] = "raises"
  THEN Append(r.executed, Len(r.executed) + 1)
  ELSE r.executed

C29_RollbacksPaired ==
  \A p \in Procs :
    res[p].op = "tm"
    => /\ res[p].ok <=> (\A i \in 1..Len(res[p].operations) :
                           res[p].operations[i] = "truthy")
       /\ res[p].db = IF res[p].ok THEN "commit" ELSE "rollback"
       /\ res[p].invoked
            \in IF res[p].ok THEN {<<>>}
                ELSE {ExpectedRollbacks(res[p].executed, res[p].paired,
                                        Len(res[p].executed)),
                      ExpectedRollbacks(Called(res[p]), res[p].paired,
                                        Len(Called(res[p])))}

\* C30: the rate limiter passes at most calls_per_minute requests of one
\* client on within any window of 60 seconds; a request is answered with 429
\* exactly when the client already has calls_per_minute passed requests in
\* the 60 seconds up to it, and such a request is neither passed on nor
\* counted; a request of one client leaves the counted requests of every
\* other client as they were.
PassedIn(lim, client_ip, from, to) ==
  Cardinality({k \in 1..Len(lim.passed) :
                 /\ lim.passed[k].client_ip = client_ip
                 /\ lim.passed[k].time > from
                 /\ lim.passed[k].time <= to})

\* the requests of a client that count against it at a time
Counted(lim, client_ip, at) ==
  IF client_ip \in DOMAIN lim.client_requests
  THEN recent(lim.client_requests[client_ip], at - WindowSeconds)
  ELSE <<>>

C30_WindowBound ==
  \A client_ip \in Clients : \A t \in 0..limiter.time :
    PassedIn(limiter, client_ip, t - WindowSeconds, t) <= limiter.calls_per_minute

C30_DispatchStep ==
  limiter'.handled = limiter.handled + 1
  => LET ip == limiter'.client_ip
         now == limiter'.time
         over == PassedIn(limiter, ip, now - WindowSeconds, now)
                   >= limiter.calls_per_minute
     IN
     /\ now >= limiter.time
     /\ limiter'.status = IF over THEN 429 ELSE 200
     /\ over => /\ limiter'.passed = limiter.passed
                /\ Counted(limiter', ip, now) = Counted(limiter, ip, now)
     /\ ~over => /\ limiter'.passed = Append(limiter.passed,
                                             [client_ip |-> ip, time |-> now])
                 /\ Counted(limiter', ip, now)
                      = Append(Counted(limiter, ip, now), now)
     /\ \A other \in Clients \ {ip} :
          Counted(limiter', other, now) = Counted(limiter, other, now)

C30_RateLimited == []C30_WindowBound /\ [][C30_DispatchStep]_vars

\* a client at its limit was refused while the other client, in the same
\* second, was let through
C30_Witness ==
  /\ limiter.status = 200
  /\ limiter.calls_per_minute = 2
  /\ \E ip \in Clients :
       /\ ip # limiter.client_ip
       /\ PassedIn(limiter, ip, limiter.time - WindowSeconds, limiter.time) = 2
       /\ limiter.handled > Len(limiter.passed)
====
